---- MODULE Spec2Model ----
(***************************************************************************)
(* Model of src/app.py, the ESPN fantasy proxy: the in-memory TTL cache,   *)
(* the projection extractor, the cached request handlers and the start/sit *)
(* recommendation engine.                                                  *)
(*                                                                         *)
(* Numbers that are floats in the source (projections, ownership, margin)  *)
(* are fixed-point integers in thousandths; a value reported through       *)
(* round(x, 2) is an integer in hundredths.  An Optional value is a        *)
(* sequence: <<>> is None, <<v>> is the value v.                           *)
(***************************************************************************)
EXTENDS Integers, Sequences, FiniteSets, TLC

VARIABLES
    now,        \* the wall clock read by time.time(), in seconds
    ticks,      \* how many times the clock has advanced
    CACHE,      \* app.py:62  key -> <<>> | <<[ts, data]>>
    lastPut,    \* history: per key, the (ts, data) of the latest completed store
    got,        \* history: the latest direct cache_get call and what it returned
    upstream,   \* the league document held by the third-party API
    req,        \* the request threads: position and locals of each
    resp,       \* the latest response of a request run to completion in one step
    stats,      \* a player's stat records, input of find_week_projection
    projOut     \* the latest find_week_projection call and what it returned

vars == <<now, ticks, CACHE, lastPut, got, upstream, req, resp, stats, projOut>>

---------------------------------------------------------------------------
(* Bounds of the model *)

MaxTicks == 4

---------------------------------------------------------------------------
(* Optional values *)

None == <<>>
Some(v) == <<v>>

---------------------------------------------------------------------------
(* The clock.  It advances between any two steps of the program. *)

\* the server's clock is watched at the grain of the shorter TTL; the direct
\* cache calls are watched around the expiry, to the second
ServerTicks == {900}
CacheTicks == {1, 899}

---------------------------------------------------------------------------
(* Cache keys: f"init:{league_id}:{year}" and f"roster:{league_id}:{year}". *)
(* The decimal rendering of an int holds no ':', so the string determines  *)
(* the triple and the triple stands for the string.                        *)

LeagueIds == {1}
Years == {2025}

InitKey(league_id, year) == <<"init", league_id, year>>
RosterKey(league_id, year) == <<"roster", league_id, year>>

Keys == {InitKey(l, y) : l \in LeagueIds, y \in Years}
            \cup {RosterKey(l, y) : l \in LeagueIds, y \in Years}

TTL_INIT == 3600
TTL_ROSTER == 900

---------------------------------------------------------------------------
(* The TTL cache, app.py:62-72 *)

\* cache_get with the staleness test widened to <=
cache_get_inclusive(C, key, ttl, t) ==
    LET row == C[key]
    IN  [ret   |-> IF row = None THEN None
                   ELSE IF (t - row[1].ts) <= ttl THEN Some(row[1].data) ELSE None,
         CACHE |-> C]

\* cache_get that drops the entry it found stale
cache_get_evict(C, key, ttl, t) ==
    LET row == C[key]
    IN  [ret   |-> IF row = None THEN None
                   ELSE IF (t - row[1].ts) < ttl THEN Some(row[1].data) ELSE None,
         CACHE |-> IF row # None /\ ~((t - row[1].ts) < ttl)
                   THEN [C EXCEPT ![key] = None] ELSE C]

\* cache_get(key, ttl) called when the clock reads t: what it returns (ret)
\* and the store it leaves behind (CACHE).  A stored row is a (ts, data)
\* tuple, never empty, so `not row` is exactly "no entry".
cache_get(C, key, ttl, t) ==
    LET row == C[key]
    IN  [ret   |-> IF row = None THEN None
                   ELSE IF (t - row[1].ts) < ttl THEN Some(row[1].data) ELSE None,
         CACHE |-> C]

\* cache_put that keeps an entry already present
cache_put_keep(C, key, data, t) ==
    IF C[key] = None THEN [C EXCEPT ![key] = Some([ts |-> t, data |-> data])] ELSE C

\* cache_put(key, data) whose time.time() returned t: CACHE[key] = (t, data)
cache_put(C, key, data, t) ==
    [C EXCEPT ![key] = Some([ts |-> t, data |-> data])]

---------------------------------------------------------------------------
(* Values every specification starts from *)

CacheValues == {"v1", "v2"}
TtlValues == {-1, 0, 1, TTL_ROSTER, TTL_INIT}

NoGet == [valid |-> FALSE, key |-> CHOOSE k \in Keys : TRUE, ttl |-> 0, at |-> 0, ret |-> None]

EmptyCache == [k \in Keys |-> None]

---------------------------------------------------------------------------
(* Direct use of the cache: any sequence of cache_put / cache_get calls    *)
(* with the clock advancing in between.                                    *)

Tick(d) ==
    /\ ticks < MaxTicks
    /\ now' = now + d
    /\ ticks' = ticks + 1
    /\ got' = NoGet
    /\ UNCHANGED <<CACHE, lastPut, upstream, req, resp, stats, projOut>>

CachePutCall(key, v) ==
    /\ CACHE' = cache_put(CACHE, key, v, now)
    /\ lastPut' = [lastPut EXCEPT ![key] = Some([ts |-> now, data |-> v])]
    /\ got' = NoGet
    /\ UNCHANGED <<now, ticks, upstream, req, resp, stats, projOut>>

CacheGetCall(key, ttl) ==
    LET r == cache_get(CACHE, key, ttl, now)
    IN  /\ CACHE' = r.CACHE
        /\ got' = [valid |-> TRUE, key |-> key, ttl |-> ttl, at |-> now, ret |-> r.ret]
        /\ UNCHANGED <<now, ticks, lastPut, upstream, req, resp, stats, projOut>>

---------------------------------------------------------------------------
(* The projection extractor, app.py:82-96.  A stat record is               *)
(* [scoringPeriodId, statSourceId, appliedTotal, seasonId], each field an  *)
(* Optional: <<>> when the key is missing (or, for appliedTotal, null).    *)

MaxStats == 3

\* float(x) of a JSON number keeps its value
Float(x) == x

\* x.get(field, 0)
GetOr0(opt) == IF opt = None THEN 0 ELSE opt[1]

\* key=lambda x: (x.get("seasonId", 0), x.get("scoringPeriodId", 0))
SortKey(s) == <<GetOr0(s.seasonId), GetOr0(s.scoringPeriodId)>>

\* tuple comparison a <= b, as Python orders tuples
KeyLE(a, b) == a[1] < b[1] \/ (a[1] = b[1] /\ a[2] <= b[2])

\* s with x put after every element whose key is <= the key of x
InsertSorted(s, x) ==
    LET before == {i \in 1..Len(s) : KeyLE(SortKey(s[i]), SortKey(x))}
        n == IF before = {} THEN 0
             ELSE CHOOSE i \in before : \A j \in before : j <= i
    IN  SubSeq(s, 1, n) \o <<x>> \o SubSeq(s, n + 1, Len(s))

RECURSIVE sorted(_)
\* sorted(proj, key=...): ascending and stable
sorted(s) ==
    IF s = <<>> THEN <<>>
    ELSE InsertSorted(sorted(SubSeq(s, 1, Len(s) - 1)), s[Len(s)])

\* s.get("scoringPeriodId") == week and s.get("statSourceId") == 1
\* and "appliedTotal" in s and s["appliedTotal"] is not None
IsExact(s, week) ==
    /\ s.scoringPeriodId = Some(week)
    /\ s.statSourceId = Some(1)
    /\ s.appliedTotal # None

\* s.get("statSourceId") == 1 and s.get("appliedTotal") is not None
IsProjection(s) == s.statSourceId = Some(1) /\ s.appliedTotal # None

\* the fallback taking the latest record by scoringPeriodId alone
find_week_projection_periodonly(st, week) ==
    LET exact == SelectSeq(st, LAMBDA s : IsExact(s, week))
        proj == SelectSeq(st, LAMBDA s : IsProjection(s))
        best == CHOOSE i \in 1..Len(proj) :
                    \A j \in 1..Len(proj) :
                        \/ GetOr0(proj[j].scoringPeriodId) < GetOr0(proj[i].scoringPeriodId)
                        \/ (GetOr0(proj[j].scoringPeriodId) = GetOr0(proj[i].scoringPeriodId)
                            /\ j <= i)
    IN  IF exact # <<>> THEN Some(Float(exact[1].appliedTotal[1]))
        ELSE IF proj # <<>> THEN Some(Float(proj[best].appliedTotal[1]))
        ELSE None

\* find_week_projection(player_obj, week), st = player_obj.get("stats", [])
find_week_projection(st, week) ==
    LET exact == SelectSeq(st, LAMBDA s : IsExact(s, week))
        proj == SelectSeq(st, LAMBDA s : IsProjection(s))
    IN  IF exact # <<>> THEN Some(Float(exact[1].appliedTotal[1]))
        ELSE IF proj # <<>> THEN Some(Float(sorted(proj)[Len(proj)].appliedTotal[1]))
        ELSE None

Stat(period, source, total, season) ==
    [scoringPeriodId |-> period, statSourceId |-> source,
     appliedTotal |-> total, seasonId |-> season]

\* the records a player's stats are drawn from: projections of two seasons
\* and of weeks 1, 2 and none, a null projection, an actual result
\* (statSourceId 0) and a projection without seasonId
StatChoices ==
    {Stat(p, Some(1), Some(t), Some(y)) :
        p \in {None, Some(1), Some(2)}, t \in {10500, 12000}, y \in {2024, 2025}}
    \cup {Stat(Some(2), Some(1), None, Some(2025)),
          Stat(Some(2), Some(0), Some(9000), Some(2025)),
          Stat(Some(3), Some(1), Some(7000), None)}

Weeks == {1, 2, 3}

NoProj == [valid |-> FALSE, week |-> 0, ret |-> None]

AddStat(s) ==
    /\ Len(stats) < MaxStats
    /\ stats' = Append(stats, s)
    /\ projOut' = NoProj
    /\ UNCHANGED <<now, ticks, CACHE, lastPut, got, upstream, req, resp>>

FindWeekProjection(week) ==
    /\ projOut' = [valid |-> TRUE, week |-> week, ret |-> find_week_projection(stats, week)]
    /\ UNCHANGED <<now, ticks, CACHE, lastPut, got, upstream, req, resp, stats>>

---------------------------------------------------------------------------
(* The upstream league document.  One team (id 1) is modelled; a roster    *)
(* entry is flattened to the fields the handlers read:                     *)
(*   playerId, lineupSlotId            of the entry,                       *)
(*   eligibleSlots, stats              of playerPoolEntry.player,          *)
(*   percentOwned                      of player.ownership.                *)
(* fullName, defaultPositionId and injuryStatus are copied through by the  *)
(* handlers and never tested, and are left out.                            *)

MaxRoster == 3

TeamIds == {1}
RequestedTeamIds == {1, 2}
TeamNames == {"Aces", "Bears"}

Entry(pid, slot, eligible, st, owned) ==
    [playerId |-> pid, lineupSlotId |-> slot, eligibleSlots |-> eligible,
     stats |-> st, percentOwned |-> owned]

WeekStat(week, total) == Stat(Some(week), Some(1), Some(total), Some(2025))

\* what a new roster entry may look like, before it gets its playerId:
\* starters in slots 4 and 2, bench players (slot 20) eligible for slot 4,
\* for slots 2 and 4 or with no eligibleSlots, and one on injured reserve
EntryChoices ==
    {Entry(0, 4, Some(<<4>>), <<WeekStat(1, t)>>, None) : t \in {10000, 10004}}
    \cup {Entry(0, 4, Some(<<4>>), <<>>, Some(100000)),
          Entry(0, 2, Some(<<2>>), <<WeekStat(1, 10000)>>, None)}
    \cup {Entry(0, 20, Some(<<4>>), <<WeekStat(1, t)>>, None) : t \in {10000, 10606}}
    \cup {Entry(0, 20, Some(<<4>>), <<WeekStat(1, 10300), WeekStat(2, 10000)>>, None),
          Entry(0, 20, Some(<<2, 4>>), <<WeekStat(1, 10300)>>, None),
          Entry(0, 20, None, <<WeekStat(1, 10606)>>, Some(990000)),
          Entry(0, 21, Some(<<2, 4>>), <<WeekStat(1, 10606)>>, None)}

\* the document the upstream returns for the league: raw["teams"]
RawDoc(u) ==
    [teams |-> <<[id |-> 1, name |-> u.name, roster |-> [entries |-> u.entries]]>>]

\* the outcomes of requests.get + raise_for_status: a 2xx response, a
\* non-success response with its status and text, or no response at all
\* (connection error, the 20 s timeout)
UpstreamOutcomes ==
    {[kind |-> "ok", status |-> 200, text |-> ""],
     [kind |-> "http", status |-> 503, text |-> "unavailable"],
     [kind |-> "transport", status |-> 0, text |-> ""]}

NoResult == [kind |-> "none", status_code |-> 0, detail |-> "", body |-> None]

\* espn_get(url, params), app.py:19-30: the parsed document; HTTPError
\* becomes HTTPException(status_code, detail); any other exception of
\* requests.get is not caught and leaves the handler as it is
espn_get(outcome, doc) ==
    CASE outcome.kind = "ok" ->
            [NoResult EXCEPT !.kind = "ok", !.body = Some(doc)]
      [] outcome.kind = "http" ->
            [NoResult EXCEPT !.kind = "HTTPException",
                             !.status_code = outcome.status, !.detail = outcome.text]
      [] OTHER ->
            [NoResult EXCEPT !.kind = "RequestException"]

\* league_get(league_id, year, views, extra_params), app.py:75-80
league_get(outcome, doc) == espn_get(outcome, doc)

---------------------------------------------------------------------------
(* The roster split, app.py:141-142 and app.py:186-187 *)

\* [e for e in entries if e.get("lineupSlotId") not in (20, 21)]
starters(entries) == SelectSeq(entries, LAMBDA e : e.lineupSlotId \notin {20, 21})

\* the split that takes injured reserve for bench
bench_with_ir(entries) == SelectSeq(entries, LAMBDA e : e.lineupSlotId \in {20, 21})

\* [e for e in entries if e.get("lineupSlotId") in (20, )]
bench(entries) == SelectSeq(entries, LAMBDA e : e.lineupSlotId \in {20})

---------------------------------------------------------------------------
(* The recommendation engine, app.py:170-224 *)

\* round(x, 2) of a value in thousandths, in hundredths: to the nearest,
\* an exact half to the even neighbour (\div rounds down, % is >= 0)
round2(x) ==
    LET q == x \div 10
        r == x % 10
    IN  IF r > 5 \/ (r = 5 /\ q % 2 = 1) THEN q + 1 ELSE q

\* ((p.get("ownership") or {}).get("percentOwned") or 0) / 10.0
OwnershipSignal(e) == Float(GetOr0(e.percentOwned) \div 10)

\* player_and_proj(e)[1], app.py:189-196
player_and_proj(e, week) ==
    LET proj == find_week_projection(e.stats, week)
    IN  IF proj = None THEN OwnershipSignal(e) ELSE proj[1]

\* slot in (pb.get("eligibleSlots") or [])
SlotFits(slot, b) ==
    b.eligibleSlots # None
    /\ \E i \in 1..Len(b.eligibleSlots[1]) : b.eligibleSlots[1][i] = slot

RECURSIVE ScanBench(_, _, _, _)
\* the loop of app.py:205-210 over the rest of the bench, from best so far
ScanBench(bn, slot, week, best) ==
    IF bn = <<>> THEN best
    ELSE LET b == Head(bn)
             proj_b == player_and_proj(b, week)
         IN  ScanBench(Tail(bn), slot, week,
                       IF SlotFits(slot, b) /\ proj_b > best.proj
                       THEN [entry |-> Some(b), proj |-> proj_b]
                       ELSE best)

\* the recommendation whose delta is taken from the rounded projections
Recommendation_fromrounded(s, best, proj_start) ==
    [slotId |-> s.lineupSlotId,
     out    |-> [pid |-> s.playerId, proj |-> round2(proj_start)],
     in     |-> [pid |-> best.entry[1].playerId, proj |-> round2(best.proj)],
     delta  |-> round2(best.proj) - round2(proj_start)]

\* the dict appended at app.py:216-221
Recommendation(s, best, proj_start) ==
    [slotId |-> s.lineupSlotId,
     out    |-> [pid |-> s.playerId, proj |-> round2(proj_start)],
     in     |-> [pid |-> best.entry[1].playerId, proj |-> round2(best.proj)],
     delta  |-> round2(best.proj - proj_start)]

\* the body of the starters loop that accepts a candidate no better than
\* the starter
RecsFor_nonstrict(s, bn, week, margin) ==
    LET proj_start == player_and_proj(s, week)
        fits == SelectSeq(bn, LAMBDA b : SlotFits(s.lineupSlotId, b))
        top == CHOOSE i \in 1..Len(fits) :
                   \A j \in 1..Len(fits) :
                       \/ player_and_proj(fits[j], week) < player_and_proj(fits[i], week)
                       \/ (player_and_proj(fits[j], week) = player_and_proj(fits[i], week)
                           /\ i <= j)
        best == [entry |-> Some(fits[top]), proj |-> player_and_proj(fits[top], week)]
    IN  IF fits # <<>> /\ (best.proj - proj_start) >= margin
        THEN <<Recommendation(s, best, proj_start)>>
        ELSE <<>>

\* one pass of the starters loop, app.py:200-221: what it appends to recs
RecsFor(s, bn, week, margin) ==
    LET proj_start == player_and_proj(s, week)
        best == ScanBench(bn, s.lineupSlotId, week, [entry |-> None, proj |-> proj_start])
    IN  IF best.entry # None /\ (best.proj - proj_start) >= margin
        THEN <<Recommendation(s, best, proj_start)>>
        ELSE <<>>

RECURSIVE CollectRecs(_, _, _, _)
\* recs after the loop over the starters, in the starters' order
CollectRecs(st, bn, week, margin) ==
    IF st = <<>> THEN <<>>
    ELSE RecsFor(Head(st), bn, week, margin) \o CollectRecs(Tail(st), bn, week, margin)

\* recs with x put after every element whose key -delta is <= the key of x
InsertRec(recs, x) ==
    LET before == {i \in 1..Len(recs) : -recs[i].delta <= -x.delta}
        n == IF before = {} THEN 0
             ELSE CHOOSE i \in before : \A j \in before : j <= i
    IN  SubSeq(recs, 1, n) \o <<x>> \o SubSeq(recs, n + 1, Len(recs))

\* the sort left out: recs as the loop appended them
sort_recs_none(recs) == recs

RECURSIVE sort_recs(_)
\* recs.sort(key=lambda x: -x["delta"]), app.py:223: ascending in -delta, stable
sort_recs(recs) ==
    IF recs = <<>> THEN <<>>
    ELSE InsertRec(sort_recs(SubSeq(recs, 1, Len(recs) - 1)), recs[Len(recs)])

\* teams.get(team_id) over {t["id"]: t for t in raw.get("teams", [])}
TeamOf(raw, team_id) ==
    LET hits == SelectSeq(raw.teams, LAMBDA t : t.id = team_id)
    IN  IF hits = <<>> THEN None ELSE Some(hits[Len(hits)])

\* what start_sit returns once league_get has returned raw, app.py:178-224
start_sit_body(raw, team_id, week, margin) ==
    LET me == TeamOf(raw, team_id)
    IN  IF me = None
        THEN [week |-> week, teamId |-> team_id, count |-> None,
              recommendations |-> <<>>, note |-> Some("Team not found")]
        ELSE LET entries == me[1].roster.entries
                 recs == sort_recs(CollectRecs(starters(entries), bench(entries),
                                               week, margin))
             IN  [week |-> week, teamId |-> team_id, count |-> Some(Len(recs)),
                  recommendations |-> recs, note |-> None]

---------------------------------------------------------------------------
(* What /init and /team/overview cache and return, app.py:98-144 *)

\* data = {"leagueId": ..., "year": ..., "teams": [{"id", "name"} ...]}
InitData(league_id, year, raw) ==
    [leagueId |-> league_id, year |-> year,
     teams |-> [i \in 1..Len(raw.teams) |->
                    [id |-> raw.teams[i].id, name |-> raw.teams[i].name]]]

\* pack = {"teams": {t["id"]: t for t in raw.get("teams", [])}}
OverviewPack(raw) == [teams |-> raw.teams]

\* trim(e), app.py:130-139
trim(e) == [pid |-> e.playerId, eligibleSlots |-> e.eligibleSlots, slotId |-> e.lineupSlotId]

TrimAll(es) == [i \in 1..Len(es) |-> trim(es[i])]

\* what team_overview returns from pack, app.py:125-144
team_overview_body(pack, team_id) ==
    LET t == TeamOf(pack, team_id)
    IN  IF t = None
        THEN [teamId |-> team_id, teamName |-> None, starters |-> <<>>, bench |-> <<>>]
        ELSE [teamId |-> team_id, teamName |-> Some(t[1].name),
              starters |-> TrimAll(starters(t[1].roster.entries)),
              bench |-> TrimAll(bench(t[1].roster.entries))]

Ok(body) == [NoResult EXCEPT !.kind = "ok", !.body = Some(body)]

---------------------------------------------------------------------------
(* Requests run alone, one at a time: a request is handled start to end in *)
(* one step and its response is handed to the caller in the next.  The     *)
(* upstream extends the roster one entry at a time between requests.       *)

Margins == {-500, 0, 500, 601}
StartSitWeeks == {1, 2}

\* the upstream outcomes tried on a request run alone
AloneOutcomes == {o \in UpstreamOutcomes : o.status \in {200, 503}}

NoResp == [valid |-> FALSE, handler |-> "none", team_id |-> 0, week |-> 0,
           margin |-> 0, result |-> NoResult]

UpstreamAddEntry(e) ==
    /\ ~resp.valid
    /\ Len(upstream.entries) < MaxRoster
    /\ upstream' = [upstream EXCEPT
                       !.entries = Append(@, [e EXCEPT
                                                 !.playerId = Len(upstream.entries) + 1])]
    /\ resp' = NoResp
    /\ UNCHANGED <<now, ticks, CACHE, lastPut, got, req, stats, projOut>>

\* start_sit(league_id, year, team_id, week, margin), app.py:170-224
StartSit(team_id, week, margin, outcome) ==
    LET raw == league_get(outcome, RawDoc(upstream))
    IN  /\ ~resp.valid
        /\ resp' = [valid |-> TRUE, handler |-> "start_sit", team_id |-> team_id,
                    week |-> week, margin |-> margin,
                    result |-> IF raw.kind = "ok"
                               THEN Ok(start_sit_body(raw.body[1], team_id, week, margin))
                               ELSE raw]
        /\ UNCHANGED <<now, ticks, CACHE, lastPut, got, upstream, req, stats, projOut>>

\* team_overview(league_id, year, team_id), app.py:112-144, with no other
\* request in flight
TeamOverviewAlone(league_id, year, team_id, outcome) ==
    LET key == RosterKey(league_id, year)
        hit == cache_get(CACHE, key, TTL_ROSTER, now)
        raw == league_get(outcome, RawDoc(upstream))
        result == IF hit.ret # None THEN Ok(team_overview_body(hit.ret[1], team_id))
                  ELSE IF raw.kind = "ok"
                       THEN Ok(team_overview_body(OverviewPack(raw.body[1]), team_id))
                       ELSE raw
    IN  /\ ~resp.valid
        /\ resp' = [valid |-> TRUE, handler |-> "team_overview", team_id |-> team_id,
                    week |-> 0, margin |-> 0, result |-> result]
        /\ IF hit.ret = None /\ raw.kind = "ok"
           THEN /\ CACHE' = cache_put(hit.CACHE, key, OverviewPack(raw.body[1]), now)
                /\ lastPut' = [lastPut EXCEPT ![key] =
                                  Some([ts |-> now, data |-> OverviewPack(raw.body[1])])]
           ELSE /\ CACHE' = hit.CACHE
                /\ UNCHANGED lastPut
        /\ UNCHANGED <<now, ticks, got, upstream, req, stats, projOut>>

\* the response leaves the worker, which is free for the next request
Deliver ==
    /\ resp.valid
    /\ resp' = NoResp
    /\ UNCHANGED <<now, ticks, CACHE, lastPut, got, upstream, req, stats, projOut>>

---------------------------------------------------------------------------
(* The server: FastAPI runs each `def` handler on a worker thread, so      *)
(* requests interleave at every call.  A request is at one of              *)
(*   idle       no request on this thread                                  *)
(*   cache_get  about to call cache_get            (app.py:104, 118)       *)
(*   upstream   about to call league_get           (app.py:106, 120)       *)
(*   put_time   in cache_put, before time.time()   (app.py:72)             *)
(*   put_store  in cache_put, before CACHE[key] =  (app.py:72)             *)
(*   done       returned or raised                                         *)
(* What a handler does after its last access to CACHE, the clock or the    *)
(* upstream (building the response, returning) reads only its own locals   *)
(* and belongs to the step of that access.                                 *)
(* cache_get reads CACHE and the clock back to back and writes nothing: it *)
(* is one step, taken at its clock reading.  cache_put reads the clock and *)
(* then writes CACHE: another thread's store can fall in between, so it is *)
(* two steps.  seen and stale are history: what the latest store of the    *)
(* key held when the request's cache_get ran, if it was fresh, and whether *)
(* it was there but stale.                                                 *)

\* two worker threads: the concurrent pair of requests.  A thread that has
\* returned takes the next request, so any number of requests follow one
\* another.
Reqs == {1, 2}

Handlers == {"init", "team_overview"}
CachedHandlers == {"init", "team_overview"}

NoOutcome == [kind |-> "none", status |-> 0, text |-> ""]

IdleReq == [pc |-> "idle", handler |-> "none", league_id |-> 0, year |-> 0,
            team_id |-> 0, data |-> None, ts |-> 0, calls |-> 0, stores |-> 0,
            seen |-> None, stale |-> FALSE, outcome |-> NoOutcome,
            result |-> NoResult]

\* key = f"init:..." (app.py:103) or f"roster:..." (app.py:117)
KeyOf(q) ==
    IF q.handler = "init" THEN InitKey(q.league_id, q.year)
    ELSE RosterKey(q.league_id, q.year)

\* ttl=3600 (app.py:104) or ttl=900 (app.py:118)
TtlOf(q) == IF q.handler = "init" THEN TTL_INIT ELSE TTL_ROSTER

\* what the handler makes of the fetched document before caching it
DataOf(q, raw) ==
    IF q.handler = "init" THEN InitData(q.league_id, q.year, raw)
    ELSE OverviewPack(raw)

\* what the handler returns from its data
BodyOf(q, data) ==
    IF q.handler = "team_overview" THEN team_overview_body(data, q.team_id) ELSE data

\* the entry of key is fresh for ttl at time t: t - storedAt < ttl
FreshAt(key, ttl, t) == lastPut[key] # None /\ t - lastPut[key][1].ts < ttl

Arrive(r, h, l, y, t) ==
    /\ req[r].pc = "idle"
    /\ req' = [req EXCEPT ![r] =
                  [IdleReq EXCEPT !.pc = IF h \in CachedHandlers THEN "cache_get"
                                         ELSE "upstream",
                                  !.handler = h, !.league_id = l, !.year = y,
                                  !.team_id = t]]
    /\ UNCHANGED <<now, ticks, CACHE, lastPut, got, upstream, resp, stats, projOut>>

\* data = cache_get(key, ttl); if not data: ... else return   (a cached
\* value is a dict with keys, never falsy)
DoCacheGet(r) ==
    LET q == req[r]
        g == cache_get(CACHE, KeyOf(q), TtlOf(q), now)
        seen == IF FreshAt(KeyOf(q), TtlOf(q), now)
                THEN Some(lastPut[KeyOf(q)][1].data) ELSE None
    IN  /\ q.pc = "cache_get"
        /\ CACHE' = g.CACHE
        /\ req' = [req EXCEPT ![r] =
                      [q EXCEPT !.pc = IF g.ret # None THEN "done" ELSE "upstream",
                                !.data = g.ret, !.seen = seen,
                                !.stale = (lastPut[KeyOf(q)] # None /\ seen = None),
                                !.result = IF g.ret # None THEN Ok(BodyOf(q, g.ret[1]))
                                           ELSE NoResult]]
        /\ UNCHANGED <<now, ticks, lastPut, got, upstream, resp, stats, projOut>>

\* raw = league_get(...): one upstream call, with outcome o
DoUpstream(r, o) ==
    LET q == req[r]
        e == league_get(o, RawDoc(upstream))
    IN  /\ q.pc = "upstream"
        /\ req' = [req EXCEPT ![r] =
                      IF e.kind = "ok"
                      THEN [q EXCEPT !.pc = "put_time",
                                     !.calls = q.calls + 1, !.outcome = o,
                                     !.data = Some(DataOf(q, e.body[1]))]
                      ELSE [q EXCEPT !.pc = "done",
                                     !.calls = q.calls + 1, !.outcome = o,
                                     !.result = e]]
        /\ UNCHANGED <<now, ticks, CACHE, lastPut, got, upstream, resp, stats, projOut>>

\* cache_put: time.time()
PutTime(r) ==
    /\ req[r].pc = "put_time"
    /\ req' = [req EXCEPT ![r].pc = "put_store", ![r].ts = now]
    /\ UNCHANGED <<now, ticks, CACHE, lastPut, got, upstream, resp, stats, projOut>>

\* cache_put: CACHE[key] = (ts, data); then return data / return {...}
PutStore(r) ==
    LET q == req[r]
    IN  /\ q.pc = "put_store"
        /\ CACHE' = cache_put(CACHE, KeyOf(q), q.data[1], q.ts)
        /\ lastPut' = [lastPut EXCEPT ![KeyOf(q)] =
                          Some([ts |-> q.ts, data |-> q.data[1]])]
        /\ req' = [req EXCEPT ![r].pc = "done", ![r].stores = q.stores + 1,
                              ![r].result = Ok(BodyOf(q, q.data[1]))]
        /\ UNCHANGED <<now, ticks, got, upstream, resp, stats, projOut>>

\* the thread is handed back to the pool
Leave(r) ==
    /\ req[r].pc = "done"
    /\ req' = [req EXCEPT ![r] = IdleReq]
    /\ UNCHANGED <<now, ticks, CACHE, lastPut, got, upstream, resp, stats, projOut>>

\* the league renames its team upstream
UpstreamRename(n) ==
    /\ upstream.name # n
    /\ upstream' = [upstream EXCEPT !.name = n]
    /\ UNCHANGED <<now, ticks, CACHE, lastPut, got, req, resp, stats, projOut>>

---------------------------------------------------------------------------
(* Initial states and specifications *)

InitCommon ==
    /\ now = 0
    /\ ticks = 0
    /\ CACHE = EmptyCache
    /\ lastPut = [k \in Keys |-> None]
    /\ got = NoGet
    /\ req = [r \in Reqs |-> IdleReq]
    /\ resp = NoResp
    /\ stats = <<>>
    /\ projOut = NoProj

\* any sequence of cache_put / cache_get calls and clock advances
InitCache == InitCommon /\ upstream = [name |-> "Aces", entries |-> <<>>]

NextCache ==
    \/ \E d \in CacheTicks : Tick(d)
    \/ \E k \in Keys, v \in CacheValues : CachePutCall(k, v)
    \/ \E k \in Keys, ttl \in TtlValues : CacheGetCall(k, ttl)

SpecCache == InitCache /\ [][NextCache]_vars

\* find_week_projection over every short list of stat records
InitProj == InitCommon /\ upstream = [name |-> "Aces", entries |-> <<>>]

NextProj ==
    \/ \E s \in StatChoices : AddStat(s)
    \/ \E w \in Weeks : FindWeekProjection(w)

SpecProj == InitProj /\ [][NextProj]_vars

\* /start-sit and /team/overview over every short roster
InitRoster == InitCommon /\ upstream = [name |-> "Aces", entries |-> <<>>]

NextRoster ==
    \/ \E e \in EntryChoices : UpstreamAddEntry(e)
    \/ \E t \in RequestedTeamIds, w \in StartSitWeeks, m \in Margins,
          o \in AloneOutcomes : StartSit(t, w, m, o)
    \/ \E l \in LeagueIds, y \in Years, t \in RequestedTeamIds,
          o \in AloneOutcomes : TeamOverviewAlone(l, y, t, o)
    \/ Deliver

SpecRoster == InitRoster /\ [][NextRoster]_vars

\* the roster of the spec's example: slots 20, 21, 4, 20
SampleRoster ==
    <<Entry(1, 20, Some(<<4>>), <<WeekStat(1, 10606)>>, None),
      Entry(2, 21, Some(<<2, 4>>), <<WeekStat(1, 10606)>>, None),
      Entry(3, 4, Some(<<4>>), <<WeekStat(1, 10000)>>, None),
      Entry(4, 20, Some(<<2, 4>>), <<WeekStat(1, 10300)>>, None)>>

\* the server under concurrent requests, clock advances and upstream changes
Init == InitCommon /\ upstream = [name |-> "Aces", entries |-> SampleRoster]

Next ==
    \/ \E d \in ServerTicks : Tick(d)
    \/ \E n \in TeamNames : UpstreamRename(n)
    \/ \E r \in Reqs, h \in Handlers, l \in LeagueIds, y \in Years :
          \E t \in (IF h = "team_overview" THEN TeamIds ELSE {0}) :
              Arrive(r, h, l, y, t)
    \/ \E r \in Reqs : DoCacheGet(r)
    \/ \E r \in Reqs, o \in UpstreamOutcomes : DoUpstream(r, o)
    \/ \E r \in Reqs : PutTime(r)
    \/ \E r \in Reqs : PutStore(r)
    \/ \E r \in Reqs : Leave(r)

Spec == Init /\ [][Next]_vars

---------------------------------------------------------------------------
(* Properties of the cache under direct calls (SpecCache) *)

\* C1: a cache_get(k, T) issued at time `at` returns the value of the most
\* recent cache_put(k, v) iff such a put exists and at - storedAt < T; with
\* no entry, or with at - storedAt >= T (every T <= 0 included), it returns
\* None.
C1_GetReturnsFreshValueOnly ==
    got.valid =>
        LET p == lastPut[got.key]
        IN  got.ret = IF p # None /\ got.at - p[1].ts < got.ttl
                      THEN Some(p[1].data)
                      ELSE None

\* a get that hits one second before the entry expires
C1_Witness ==
    /\ got.valid
    /\ got.ttl = TTL_ROSTER
    /\ lastPut[got.key] # None
    /\ got.at - lastPut[got.key][1].ts = TTL_ROSTER - 1
    /\ got.ret = Some(lastPut[got.key][1].data)

\* C6: a cache_get step, hit, miss or stale, leaves the whole mapping as it
\* was; a cache_put(k, v) step sets the entry of k to (now, v) whatever was
\* there and leaves the entry of every other key as it was.
C6_GetWritesNothingPutWritesOneKey ==
    [][ /\ got'.valid => CACHE' = CACHE
        /\ \A k \in Keys :
              lastPut'[k] # lastPut[k] =>
                  /\ CACHE'[k] = Some([ts |-> now, data |-> lastPut'[k][1].data])
                  /\ \A k2 \in Keys \ {k} : CACHE'[k2] = CACHE[k2] ]_vars

\* a get found the entry stale, returned None, and the entry is still stored
C6_Witness ==
    /\ got.valid
    /\ got.ttl > 0
    /\ got.ret = None
    /\ CACHE[got.key] # None
    /\ \E k \in Keys \ {got.key} : CACHE[k] # None

---------------------------------------------------------------------------
(* Properties of the projection extractor (SpecProj) *)

\* the indices of the player's projection records
ProjectionIdx == {i \in 1..Len(stats) : stats[i].statSourceId = Some(1)
                                        /\ stats[i].appliedTotal # None}

\* those of them recorded for the week asked for
ExactIdx == {i \in ProjectionIdx : stats[i].scoringPeriodId = Some(projOut.week)}

SeasonOf(i) == IF stats[i].seasonId = None THEN 0 ELSE stats[i].seasonId[1]
PeriodOf(i) == IF stats[i].scoringPeriodId = None THEN 0 ELSE stats[i].scoringPeriodId[1]

\* record j is ordered strictly before record i by (seasonId, scoringPeriodId)
KeyBefore(j, i) ==
    SeasonOf(j) < SeasonOf(i) \/ (SeasonOf(j) = SeasonOf(i) /\ PeriodOf(j) < PeriodOf(i))

\* the projection records of greatest key; the last of them in the sequence
LatestIdx ==
    {i \in ProjectionIdx :
        \A j \in ProjectionIdx \ {i} : KeyBefore(j, i) \/ (~KeyBefore(i, j) /\ j < i)}

\* C3: find_week_projection returns the appliedTotal of the first record
\* with scoringPeriodId == week, statSourceId == 1 and a non-null total; if
\* there is none, that of the projection record of greatest (seasonId,
\* scoringPeriodId), missing fields as 0, the last one among equal keys; if
\* there is no projection record, None.  It is None iff the player has no
\* projection record, and any value it returns is the total of one.
C3_ProjectionSelection ==
    projOut.valid =>
        /\ ExactIdx # {} =>
              \E i \in ExactIdx :
                  /\ \A j \in ExactIdx : i <= j
                  /\ projOut.ret = Some(stats[i].appliedTotal[1])
        /\ (ExactIdx = {} /\ ProjectionIdx # {}) =>
              /\ Cardinality(LatestIdx) = 1
              /\ \A i \in LatestIdx : projOut.ret = Some(stats[i].appliedTotal[1])
        /\ (projOut.ret = None) <=> (ProjectionIdx = {})
        /\ projOut.ret # None =>
              \E i \in ProjectionIdx : projOut.ret = Some(stats[i].appliedTotal[1])

\* no record of the week asked for, an older season's later week among the
\* projections, and two equal latest keys with different totals
C3_Witness ==
    /\ projOut.valid
    /\ ExactIdx = {}
    /\ \E i \in ProjectionIdx, j \in ProjectionIdx, k \in ProjectionIdx :
          /\ i < j
          /\ ~KeyBefore(i, j) /\ ~KeyBefore(j, i)
          /\ stats[i].appliedTotal # stats[j].appliedTotal
          /\ SeasonOf(k) < SeasonOf(j) /\ PeriodOf(k) > PeriodOf(j)
          /\ j \in LatestIdx
          /\ projOut.ret = stats[j].appliedTotal

---------------------------------------------------------------------------
(* Properties of /start-sit and /team/overview (SpecRoster) *)

\* the last request was a /start-sit that found the team
StartSitAnswered ==
    /\ resp.valid
    /\ resp.handler = "start_sit"
    /\ resp.result.kind = "ok"
    /\ resp.result.body[1].note = None

Recs == resp.result.body[1].recommendations

Roster == upstream.entries

\* the projection /start-sit works with for roster entry i
ProjOf(i) == player_and_proj(Roster[i], resp.week)

StarterIdx == {i \in 1..Len(Roster) : Roster[i].lineupSlotId \notin {20, 21}}

\* the bench entries that list the slot of starter i in eligibleSlots
EligibleBenchIdx(i) ==
    {j \in 1..Len(Roster) :
        /\ Roster[j].lineupSlotId = 20
        /\ Roster[j].eligibleSlots # None
        /\ \E n \in 1..Len(Roster[j].eligibleSlots[1]) :
              Roster[j].eligibleSlots[1][n] = Roster[i].lineupSlotId}

\* those of them with the highest projection
TopBenchIdx(i) ==
    {j \in EligibleBenchIdx(i) : \A k \in EligibleBenchIdx(i) : ProjOf(k) <= ProjOf(j)}

\* the recommendations whose outgoing player is roster entry i
RecsOut(i) == {n \in 1..Len(Recs) : Recs[n].out.pid = Roster[i].playerId}

\* C2 as stated: for every margin, zero and negative included, a starter
\* gets a recommendation iff some bench entry is eligible for its slot and
\* the highest eligible bench projection minus its own is >= margin; then
\* it gets exactly one, whose incoming player is an eligible bench entry of
\* that highest projection.
C2_Original ==
    StartSitAnswered =>
        \A i \in StarterIdx :
            /\ RecsOut(i) # {} <=>
                  \E j \in TopBenchIdx(i) : ProjOf(j) - ProjOf(i) >= resp.margin
            /\ RecsOut(i) # {} =>
                  /\ Cardinality(RecsOut(i)) = 1
                  /\ \A n \in RecsOut(i) :
                        \E j \in TopBenchIdx(i) : Recs[n].in.pid = Roster[j].playerId

\* C2 (amended): a starter gets a recommendation iff the highest projection
\* among the bench entries eligible for its slot is strictly higher than its
\* own and exceeds it by at least margin; then it gets exactly one, whose
\* incoming player is an eligible bench entry of that highest projection.
C2_RecommendationIffStrictlyBetterByMargin ==
    StartSitAnswered =>
        \A i \in StarterIdx :
            /\ RecsOut(i) # {} <=>
                  \E j \in TopBenchIdx(i) :
                      /\ ProjOf(j) > ProjOf(i)
                      /\ ProjOf(j) - ProjOf(i) >= resp.margin
            /\ RecsOut(i) # {} =>
                  /\ Cardinality(RecsOut(i)) = 1
                  /\ \A n \in RecsOut(i) :
                        \E j \in TopBenchIdx(i) : Recs[n].in.pid = Roster[j].playerId

\* margin 0.5: one starter with two eligible bench entries above it, only
\* the higher one far enough, and that one recommended
C2_Witness ==
    /\ StartSitAnswered
    /\ resp.margin = 500
    /\ \E i \in StarterIdx :
          /\ \E j \in EligibleBenchIdx(i), k \in EligibleBenchIdx(i) :
                /\ ProjOf(j) > ProjOf(i) /\ ProjOf(j) - ProjOf(i) < resp.margin
                /\ ProjOf(k) - ProjOf(i) >= resp.margin
                /\ \E n \in RecsOut(i) : Recs[n].in.pid = Roster[k].playerId
          /\ Cardinality(RecsOut(i)) = 1

\* the roster entry with playerId pid
EntryOfPid(pid) == CHOOSE i \in 1..Len(Roster) : Roster[i].playerId = pid

\* the last request was a /team/overview that found the team
OverviewAnswered ==
    /\ resp.valid
    /\ resp.handler = "team_overview"
    /\ resp.result.kind = "ok"
    /\ resp.result.body[1].teamName # None

\* the roster snapshot /team/overview answered from
Snapshot ==
    LET key == CHOOSE k \in Keys : k[1] = "roster"
    IN  CACHE[key][1].data.teams[1].roster.entries

\* the trimmed sequence out holds the entries of es that satisfy want, each
\* once, in the order of es
IsSelection(out, es, want(_)) ==
    /\ \A i \in 1..Len(es) :
          want(es[i]) <=> \E n \in 1..Len(out) : out[n].pid = es[i].playerId
    /\ \A n \in 1..Len(out) :
          \E i \in 1..Len(es) : es[i].playerId = out[n].pid
                                /\ es[i].lineupSlotId = out[n].slotId
    /\ \A n \in 1..Len(out), m \in 1..Len(out) : n < m => out[n].pid < out[m].pid

\* C8: the split puts an entry in starters iff its lineupSlotId is neither
\* 20 nor 21 and in bench iff it is 20; the two are disjoint and keep roster
\* order (playerIds are roster positions); an entry with lineupSlotId 21 is
\* in neither, and is never the outgoing or incoming player of a
\* recommendation.
C8_SplitExcludesInjuredReserve ==
    /\ OverviewAnswered =>
          LET body == resp.result.body[1]
          IN  /\ IsSelection(body.starters, Snapshot,
                             LAMBDA e : e.lineupSlotId # 20 /\ e.lineupSlotId # 21)
              /\ IsSelection(body.bench, Snapshot, LAMBDA e : e.lineupSlotId = 20)
              /\ \A n \in 1..Len(body.starters), m \in 1..Len(body.bench) :
                    body.starters[n].pid # body.bench[m].pid
              /\ \A n \in 1..Len(body.starters) : body.starters[n].slotId # 21
              /\ \A m \in 1..Len(body.bench) : body.bench[m].slotId # 21
    /\ StartSitAnswered =>
          \A n \in 1..Len(Recs) :
              /\ Roster[EntryOfPid(Recs[n].out.pid)].lineupSlotId \notin {20, 21}
              /\ Roster[EntryOfPid(Recs[n].in.pid)].lineupSlotId = 20

\* an overview of a roster holding a starter, a bench entry and an injured
\* reserve entry
C8_Witness ==
    /\ OverviewAnswered
    /\ resp.result.body[1].starters # <<>>
    /\ resp.result.body[1].bench # <<>>
    /\ \E i \in 1..Len(Snapshot) : Snapshot[i].lineupSlotId = 21

\* C9: the recommendations are in descending order of reported delta, and
\* recommendations of equal reported delta are in the roster order of their
\* starters.
C9_SortedByDeltaStable ==
    StartSitAnswered =>
        \A n \in 1..(Len(Recs) - 1) :
            \/ Recs[n].delta > Recs[n + 1].delta
            \/ /\ Recs[n].delta = Recs[n + 1].delta
               /\ EntryOfPid(Recs[n].out.pid) < EntryOfPid(Recs[n + 1].out.pid)

\* the starter later in the roster has the larger delta and comes first
C9_Witness ==
    /\ StartSitAnswered
    /\ Len(Recs) >= 2
    /\ Recs[1].delta > Recs[2].delta
    /\ EntryOfPid(Recs[1].out.pid) > EntryOfPid(Recs[2].out.pid)

\* C10 as stated: the reported delta is the reported incoming projection
\* minus the reported outgoing projection, and is >= margin.
C10_Original ==
    StartSitAnswered =>
        \A n \in 1..Len(Recs) :
            /\ Recs[n].delta = Recs[n].in.proj - Recs[n].out.proj
            /\ Recs[n].delta * 10 >= resp.margin

\* C10 (amended): the projections are reported rounded to 2 digits; the
\* reported delta is the unrounded incoming projection minus the unrounded
\* outgoing projection, rounded to 2 digits, so it is within 0.01 of the
\* difference of the reported projections; the unrounded difference is
\* >= margin, so the reported delta is >= margin rounded to 2 digits.
C10_DeltaRoundedFromUnrounded ==
    StartSitAnswered =>
        \A n \in 1..Len(Recs) :
            LET o == ProjOf(EntryOfPid(Recs[n].out.pid))
                i == ProjOf(EntryOfPid(Recs[n].in.pid))
                d == Recs[n].delta - (Recs[n].in.proj - Recs[n].out.proj)
            IN  /\ Recs[n].out.proj = round2(o)
                /\ Recs[n].in.proj = round2(i)
                /\ Recs[n].delta = round2(i - o)
                /\ -1 <= d /\ d <= 1
                /\ i - o >= resp.margin
                /\ Recs[n].delta >= round2(resp.margin)

\* 10.004 out, 10.606 in: delta 0.60 beside projections 10.00 and 10.61
C10_Witness ==
    /\ StartSitAnswered
    /\ \E n \in 1..Len(Recs) :
          /\ Recs[n].delta # Recs[n].in.proj - Recs[n].out.proj
          /\ Recs[n].delta * 10 < resp.margin

---------------------------------------------------------------------------
(* Properties of the server under concurrent requests (Spec) *)

\* C4 as stated: a request whose upstream call failed, by a non-success
\* response or a transport failure, ends with a failure that carries the
\* upstream's status code and body, after exactly one upstream call and
\* without a store into the cache.
C4_Original ==
    \A r \in Reqs :
        (req[r].pc = "done" /\ req[r].outcome.kind \in {"http", "transport"}) =>
            /\ req[r].result.kind = "HTTPException"
            /\ req[r].result.status_code = req[r].outcome.status
            /\ req[r].result.detail = req[r].outcome.text
            /\ req[r].calls = 1
            /\ req[r].stores = 0

\* the data a handler may have built from one upstream document
DataChoices(q) ==
    {DataOf(q, RawDoc([upstream EXCEPT !.name = n])) : n \in TeamNames}

\* C5: a request of /init (ttl 3600) or /team/overview (ttl 900) whose
\* cache_get finds the entry fresh (now - storedAt < ttl) makes no upstream
\* call and answers from the cached data; one that finds no entry or a stale
\* one makes exactly one upstream call and, when that succeeds, stores the
\* fetched data with the clock reading of its cache_put, once, and answers
\* from it.
C5_FreshServedStaleRefetchedOnce ==
    \A r \in Reqs :
        LET q == req[r]
        IN  q.pc \in {"upstream", "put_time", "put_store", "done"} =>
                /\ q.seen # None =>
                      /\ q.pc = "done"
                      /\ q.calls = 0
                      /\ q.stores = 0
                      /\ q.data = q.seen
                      /\ q.pc = "done" => q.result = Ok(BodyOf(q, q.seen[1]))
                /\ q.seen = None =>
                      /\ q.calls = (IF q.pc = "upstream" THEN 0 ELSE 1)
                      /\ q.stores = (IF q.pc = "done" /\ q.outcome.kind = "ok"
                                     THEN 1 ELSE 0)
                      /\ q.outcome.kind = "ok" =>
                            /\ q.data # None /\ q.data[1] \in DataChoices(q)
                            /\ q.pc \in {"put_store", "done"} => q.ts <= now
                            /\ q.pc = "done" => q.result = Ok(BodyOf(q, q.data[1]))

\* one request found the entry stale, fetched once and stored; the next was
\* served what it stored, without an upstream call
C5_Witness ==
    \E r1 \in Reqs, r2 \in Reqs :
        /\ req[r1].pc = "done" /\ req[r2].pc = "done"
        /\ req[r1].stale /\ req[r1].calls = 1 /\ req[r1].stores = 1
        /\ req[r2].handler = req[r1].handler
        /\ req[r2].seen = req[r1].data /\ req[r2].calls = 0
        /\ req[r2].result.kind = "ok"

\* C7 as stated: every store leaves the key holding the whole (timestamp,
\* value) pair of the storing request, and the stored timestamp of a key
\* never moves backwards when it is overwritten.
C7_Original ==
    [][ \A k \in Keys :
            (CACHE[k] # None /\ CACHE'[k] # CACHE[k]) =>
                /\ CACHE'[k] = lastPut'[k]
                /\ CACHE'[k][1].ts >= CACHE[k][1].ts ]_vars

\* C7 (amended): whatever the interleaving, a key holds exactly the
\* (timestamp, value) pair of the latest store, whole: the value is the data
\* one request built from one upstream document and the timestamp is the
\* clock reading that request's cache_put took before storing, not later
\* than the store.
C7_LatestStoreWinsWhole ==
    /\ \A k \in Keys :
          /\ CACHE[k] = lastPut[k]
          /\ CACHE[k] # None =>
                /\ CACHE[k][1].ts <= now
                /\ \E n \in TeamNames, l \in LeagueIds, y \in Years :
                      LET raw == RawDoc([upstream EXCEPT !.name = n])
                      IN  CACHE[k][1].data = IF k[1] = "init" THEN InitData(l, y, raw)
                                             ELSE OverviewPack(raw)
    /\ \A r \in Reqs : req[r].pc = "put_store" => req[r].ts <= now

\* both requests missed, fetched different documents and stored; the one
\* that stored last read the clock first, so the entry is its pair, with a
\* timestamp earlier than the one it overwrote
C7_Witness ==
    \E r1 \in Reqs, r2 \in Reqs :
        /\ req[r1].pc = "done" /\ req[r2].pc = "done"
        /\ req[r1].handler = req[r2].handler
        /\ req[r1].stores = 1 /\ req[r2].stores = 1
        /\ req[r1].seen = None /\ req[r2].seen = None
        /\ req[r1].data # req[r2].data
        /\ req[r1].ts < req[r2].ts
        /\ CACHE[KeyOf(req[r1])] = Some([ts |-> req[r1].ts, data |-> req[r1].data[1]])

====
